---- MODULE Spec2Model ----
(***************************************************************************)
(* The postgresql_database resource of terraform-provider-postgresql:      *)
(* the Create / Read / Update / Delete / Exists handlers of                *)
(* src/postgresql/resource_postgresql_database.go, the statements they     *)
(* send to the server, and the catalog lock they take.                     *)
(*                                                                         *)
(* A handler is one action.  It runs on a ResourceData value d (id, prior  *)
(* state, planned values, values written by d.Set), threads an execution   *)
(* context through its store calls in program order, and leaves the log of *)
(* statements it sent, the value it returned and the state the SDK saves.  *)
(* The server is a catalog of database rows plus the role membership of    *)
(* the connection user; any store call can fail with a store error that    *)
(* leaves the catalog unchanged.                                           *)
(***************************************************************************)
EXTENDS Integers, Sequences, FiniteSets, TLC

VARIABLES
    features,   \* capability set of the connection (c.featureSupported)
    catalog,    \* pg_database: name -> row, or NoRow
    members,    \* roles the connection user is currently a member of
    res,        \* the resource as the host stores it: [id, attrs]
    synced,     \* the host has refreshed res since the last failed operation
    call,       \* the handler invocation that returned last (NoCall when none)
    mode,       \* RWMutex: "free", "write" or "read"
    holders,    \* goroutines inside the catalog lock
    pc          \* goroutine -> [op, at, sent]

vars == <<features, catalog, members, res, synced, call, mode, holders, pc>>

(***************************************************************************)
(* Bounds and value domains                                                *)
(***************************************************************************)
\* number of goroutines the host runs handlers on
NumProcs == 3
\* number of statements and queries one concurrent invocation sends at most
MaxSends == 2
\* number of attributes one plan changes (Update) or sets away from the schema
\* defaults (Create over the ForceNew attributes)
MaxChanges == 3

ConnUser == "admin"
Names == {"db1", "db2"}
OwnerValues == {"", ConnUser, "app_role"}
DefaultTablespace == "pg_default"
\* what the server puts in place of the DEFAULT sentinel of CREATE DATABASE
ServerEncoding == "LATIN1"
ServerLocale == "en_US"

FeatureAllowConns == "featureDBAllowConnections"
FeatureIsTemplate == "featureDBIsTemplate"
AllFeatures == {FeatureAllowConns, FeatureIsTemplate}

NoRow == [present |-> FALSE]

ZeroAttrs ==
    [name |-> "", owner |-> "", template |-> "", encoding |-> "",
     lc_collate |-> "", lc_ctype |-> "", tablespace_name |-> "",
     connection_limit |-> 0, allow_connections |-> FALSE, is_template |-> FALSE]

\* strings.ToUpper on the values the model draws
ToUpper(s) ==
    CASE s = "default" -> "DEFAULT"
      [] s = "Default" -> "DEFAULT"
      [] s = "ts1" -> "TS1"
      [] s = "tmpl1" -> "TMPL1"
      [] s = "pg_default" -> "PG_DEFAULT"
      [] s = "en_US" -> "EN_US"
      [] OTHER -> s

\* fmt.Fprint of a bool
FmtBool(b) == IF b THEN "true" ELSE "false"

(***************************************************************************)
(* schema.ResourceData                                                     *)
(*   d.id   the resource id                                                *)
(*   d.old  the prior state's attributes                                   *)
(*   d.new  the prior state with the diff applied                          *)
(*   d.cur  d.new overlaid with the handler's d.Set writes (what Get sees) *)
(***************************************************************************)
NewData(id, old, new) == [id |-> id, old |-> old, new |-> new, cur |-> new]

HasChange(d, k) == d.old[k] # d.new[k]

\* d.GetOk: ok exactly when the value is not the zero value of its type
GetOk(d, k) == d.cur[k] # ZeroAttrs[k]

\* d.State() as the SDK stores it when the handler returns
StateOf(d) ==
    IF d.id = "" THEN [id |-> "", attrs |-> ZeroAttrs]
    ELSE [id |-> d.id, attrs |-> d.cur]

(***************************************************************************)
(* The store: what the server answers to a statement, and its effect       *)
(***************************************************************************)
Stmt(kind, db, arg, result) == [kind |-> kind, db |-> db, arg |-> arg, res |-> result]

IsQuery(kind) ==
    kind \in {"SELECT_OWNER", "SELECT_ATTRS", "SELECT_ALLOWCONN",
              "SELECT_ISTEMPLATE", "SELECT_EXISTS"}

RowOf(cat, db) == IF db \in DOMAIN cat THEN cat[db] ELSE NoRow

\* the row CREATE DATABASE makes from the clauses of the statement
CreatedRow(cl) ==
    [present |-> TRUE,
     owner |-> cl.owner,
     encoding |-> IF cl.encoding = "DEFAULT" THEN ServerEncoding ELSE cl.encoding,
     datcollate |-> IF cl.lc_collate = "DEFAULT" THEN ServerLocale ELSE cl.lc_collate,
     datctype |-> IF cl.lc_ctype = "DEFAULT" THEN ServerLocale ELSE cl.lc_ctype,
     spcname |-> IF cl.tablespace \in {"none", "DEFAULT"}
                 THEN DefaultTablespace ELSE cl.tablespace,
     datconnlimit |-> cl.connection_limit,
     datallowconn |-> (cl.allow_connections # "false"),
     datistemplate |-> (cl.is_template = "true")]

\* the server's answer when no fault is injected
StoreAnswer(feat, cat, mem, kind, db, arg) ==
    LET row == RowOf(cat, db) IN
    CASE kind = "GRANT" -> IF arg \in mem THEN "dup" ELSE "ok"
      [] kind = "REVOKE" -> "ok"
      [] kind = "CREATE" -> IF db \in DOMAIN cat /\ ~row.present THEN "ok" ELSE "error"
      [] kind = "RENAME" ->
            IF row.present /\ arg \in DOMAIN cat /\ ~RowOf(cat, arg).present
            THEN "ok" ELSE "error"
      [] kind = "DROP" -> IF row.present /\ ~row.datistemplate THEN "ok" ELSE "error"
      [] kind = "ALLOWCONN" ->
            IF row.present /\ FeatureAllowConns \in feat THEN "ok" ELSE "error"
      [] kind = "ISTEMPLATE" ->
            IF row.present /\ FeatureIsTemplate \in feat THEN "ok" ELSE "error"
      [] kind \in {"OWNER", "TABLESPACE", "RESET_TABLESPACE", "CONNLIMIT"} ->
            IF row.present THEN "ok" ELSE "error"
      [] OTHER -> IF row.present THEN "ok" ELSE "norows"

\* the catalog after a statement the server accepted
StoreEffect(cat, kind, db, arg) ==
    CASE kind = "CREATE" -> [cat EXCEPT ![db] = CreatedRow(arg)]
      [] kind = "RENAME" -> [cat EXCEPT ![arg] = cat[db], ![db] = NoRow]
      [] kind = "DROP" -> [cat EXCEPT ![db] = NoRow]
      [] kind = "OWNER" -> [cat EXCEPT ![db].owner = arg]
      [] kind = "TABLESPACE" -> [cat EXCEPT ![db].spcname = arg]
      [] kind = "RESET_TABLESPACE" -> [cat EXCEPT ![db].spcname = DefaultTablespace]
      [] kind = "CONNLIMIT" -> [cat EXCEPT ![db].datconnlimit = arg]
      [] kind = "ALLOWCONN" -> [cat EXCEPT ![db].datallowconn = arg]
      [] kind = "ISTEMPLATE" -> [cat EXCEPT ![db].datistemplate = arg]
      [] OTHER -> cat

MemberEffect(mem, kind, arg, answer) ==
    CASE kind = "GRANT" /\ answer = "ok" -> mem \cup {arg}
      [] kind = "REVOKE" /\ answer = "ok" -> mem \ {arg}
      [] OTHER -> mem

(***************************************************************************)
(* Execution context of one handler invocation                             *)
(*   err   the handler's error value so far ("none" is nil)                *)
(*   last  the answer to the latest store call                             *)
(*   n     store calls made so far, REVOKE not counted                     *)
(*   orc   the fault oracle: which call fails (0: none), and whether the   *)
(*         REVOKE fails                                                    *)
(***************************************************************************)
NoFault == [failAt |-> 0, revokeFails |-> FALSE]

NewCtx(d, feat, cat, mem, orc) ==
    [d |-> d, feat |-> feat, cat |-> cat, mem |-> mem, log |-> <<>>,
     n |-> 0, orc |-> orc, err |-> "none", last |-> "ok", found |-> FALSE]

\* whether the fault oracle fails this store call
Injected(c, kind) ==
    IF kind = "REVOKE" THEN c.orc.revokeFails ELSE c.orc.failAt = c.n + 1

\* the answer to a store call: the injected store error, or the server's
Answer(c, kind, db, arg) ==
    IF Injected(c, kind) THEN "error"
    ELSE StoreAnswer(c.feat, c.cat, c.mem, kind, db, arg)

\* the context after a store call that was answered with a
Answered(c, kind, db, arg, a) ==
    [c EXCEPT !.log = Append(@, Stmt(kind, db, arg, a)),
              !.n = IF kind = "REVOKE" THEN @ ELSE @ + 1,
              !.last = a,
              !.cat = IF a = "ok" THEN StoreEffect(@, kind, db, arg) ELSE @,
              !.mem = MemberEffect(@, kind, arg, a)]

\* c.DB().Exec / c.DB().QueryRow: one statement sent to the server
Exec(c, kind, db, arg) == Answered(c, kind, db, arg, Answer(c, kind, db, arg))

Fail(c, e) == [c EXCEPT !.err = e]
SetId(c, id) == [c EXCEPT !.d.id = id]
Set(c, k, v) == [c EXCEPT !.d.cur[k] = v]

(***************************************************************************)
(* Control flow shared by the handlers                                     *)
(***************************************************************************)
\* `if _, err := db.Exec(sql); err != nil { return errwrap.Wrapf(...) }`
Checked(c) == IF c.last # "ok" THEN Fail(c, "StoreError") ELSE c

(***************************************************************************)
(* Scoped privilege elevation                                              *)
(***************************************************************************)
\* mutant: the duplicate-key answer is an error like any other
GrantCheckedStrict(c) == IF c.last # "ok" THEN Fail(c, "StoreError") ELSE c

\* lines 527-533: the duplicate-key answer is not an error
GrantChecked(c) == IF c.last = "error" THEN Fail(c, "StoreError") ELSE c

grantRoleMembership(c, dbOwner, connUsername) ==
    IF dbOwner # "" /\ dbOwner # connUsername
    THEN GrantChecked(Exec(c, "GRANT", connUsername, dbOwner))
    ELSE c

RevokeChecked(c) == IF c.last = "error" THEN Fail(c, "RevokeError") ELSE c

revokeRoleMembership(c, dbOwner, connUsername) ==
    IF dbOwner # "" /\ dbOwner # connUsername
    THEN RevokeChecked(Exec(c, "REVOKE", connUsername, dbOwner))
    ELSE c

\* mutant: the revoke is sent on the success path only
DeferredRevokeOnSuccessOnly(c) ==
    IF c.err # "none" THEN c
    ELSE [revokeRoleMembership(c, c.d.cur.owner, ConnUser) EXCEPT !.err = c.err]

\* The deferred closure of Create and of setDBOwner.  It runs after the return
\* statement has copied its operand into the (unnamed) result, and assigns the
\* revoke's outcome to the local variable err: the value returned stays c.err.
DeferredRevoke(c) ==
    [revokeRoleMembership([c EXCEPT !.err = "none"], c.d.cur.owner, ConnUser)
        EXCEPT !.err = c.err]

(***************************************************************************)
(* resourcePostgreSQLDatabaseReadImpl                                      *)
(***************************************************************************)
\* lines 336-340
SetAllowConns(q) ==
    IF q.last # "ok" THEN Fail(q, "StoreError")
    ELSE Set(q, "allow_connections", RowOf(q.cat, q.d.id).datallowconn)

\* mutant: the allow-connections query is sent whatever the server supports
ReadAllowConnsUngated(c) ==
    SetAllowConns(Exec(c, "SELECT_ALLOWCONN", c.d.id, ""))

ReadAllowConns(c) ==
    IF FeatureAllowConns \in c.feat
    THEN SetAllowConns(Exec(c, "SELECT_ALLOWCONN", c.d.id, ""))
    ELSE c

\* lines 347-351
SetIsTemplate(q) ==
    IF q.last # "ok" THEN Fail(q, "StoreError")
    ELSE Set(q, "is_template", RowOf(q.cat, q.d.id).datistemplate)

ReadIsTemplate(c) ==
    IF FeatureIsTemplate \in c.feat
    THEN SetIsTemplate(Exec(c, "SELECT_ISTEMPLATE", c.d.id, ""))
    ELSE c

\* d.Set of the columns of the two core queries, lines 319-330
SetCoreAttrs(c) ==
    [c EXCEPT !.d.cur = [@ EXCEPT !.name = c.d.id,
                                  !.owner = RowOf(c.cat, c.d.id).owner,
                                  !.encoding = RowOf(c.cat, c.d.id).encoding,
                                  !.lc_collate = RowOf(c.cat, c.d.id).datcollate,
                                  !.lc_ctype = RowOf(c.cat, c.d.id).datctype,
                                  !.tablespace_name = RowOf(c.cat, c.d.id).spcname,
                                  !.connection_limit = RowOf(c.cat, c.d.id).datconnlimit,
                                  !.template = IF c.d.cur.template = ""
                                               THEN "template0" ELSE c.d.cur.template],
              !.found = TRUE]

\* lines 343-352, reached when the steps before returned no error
ScanIsTemplate(c) == IF c.err # "none" THEN c ELSE ReadIsTemplate(c)

\* lines 319-352
ReadColumns(q) == ScanIsTemplate(ReadAllowConns(SetCoreAttrs(q)))

\* the switch after the second core query, lines 310-317
ScanAttrs(q) ==
    IF q.last = "norows" THEN SetId(q, "")
    ELSE IF q.last # "ok" THEN Fail(q, "StoreError")
    ELSE ReadColumns(q)

\* lines 287-317
ReadAttrs(q) == ScanAttrs(Exec(q, "SELECT_ATTRS", q.d.id, ""))

\* the switch after the first core query, lines 278-285
ScanOwner(q) ==
    IF q.last = "norows" THEN SetId(q, "")
    ELSE IF q.last # "ok" THEN Fail(q, "StoreError")
    ELSE ReadAttrs(q)

\* mutant: a missing row is reported as an error
ReadImplAbsentIsError(c) ==
    IF Exec(c, "SELECT_OWNER", c.d.id, "").last # "ok"
    THEN Fail(Exec(c, "SELECT_OWNER", c.d.id, ""), "StoreError")
    ELSE ReadAttrs(Exec(c, "SELECT_OWNER", c.d.id, ""))

resourcePostgreSQLDatabaseReadImpl(c) ==
    ScanOwner(Exec(c, "SELECT_OWNER", c.d.id, ""))

(***************************************************************************)
(* resourcePostgreSQLDatabaseCreate                                        *)
(***************************************************************************)
\* mutant: an unset attribute gets no clause
ClauseUnsetOmitted(d, k, unset) ==
    IF GetOk(d, k) /\ ToUpper(d.cur[k]) = "DEFAULT" THEN "DEFAULT"
    ELSE IF GetOk(d, k) THEN d.cur[k]
    ELSE "none"

\* one option switch of lines 145-186: the DEFAULT sentinel, the given value,
\* or the clause written when the attribute is unset
Clause(d, k, unset) ==
    IF GetOk(d, k) /\ ToUpper(d.cur[k]) = "DEFAULT" THEN "DEFAULT"
    ELSE IF GetOk(d, k) THEN d.cur[k]
    ELSE unset

\* mutant: the TABLESPACE clause is left out
CreateClausesNoTablespace(d, feat) ==
    [owner |-> IF GetOk(d, "owner") THEN d.cur.owner ELSE ConnUser,
     template |-> Clause(d, "template", "template0"),
     encoding |-> Clause(d, "encoding", "UTF8"),
     lc_collate |-> Clause(d, "lc_collate", "C"),
     lc_ctype |-> Clause(d, "lc_ctype", "C"),
     tablespace |-> "none",
     allow_connections |-> IF FeatureAllowConns \in feat
                           THEN FmtBool(d.cur.allow_connections) ELSE "none",
     connection_limit |-> d.cur.connection_limit,
     is_template |-> IF FeatureIsTemplate \in feat
                     THEN FmtBool(d.cur.is_template) ELSE "none"]

\* the option switches of lines 136-201: the clauses of CREATE DATABASE
CreateClauses(d, feat) ==
    [owner |-> IF GetOk(d, "owner") THEN d.cur.owner ELSE ConnUser,
     template |-> Clause(d, "template", "template0"),
     encoding |-> Clause(d, "encoding", "UTF8"),
     lc_collate |-> Clause(d, "lc_collate", "C"),
     lc_ctype |-> Clause(d, "lc_ctype", "C"),
     tablespace |-> Clause(d, "tablespace_name", "none"),
     allow_connections |-> IF FeatureAllowConns \in feat
                           THEN FmtBool(d.cur.allow_connections) ELSE "none",
     connection_limit |-> d.cur.connection_limit,
     is_template |-> IF FeatureIsTemplate \in feat
                     THEN FmtBool(d.cur.is_template) ELSE "none"]

\* lines 208-212: set the id, re-read
ReadCreated(c) ==
    IF c.err # "none" THEN c
    ELSE resourcePostgreSQLDatabaseReadImpl(SetId(c, c.d.cur.name))

\* lines 203-213: execute the statement, set the id, re-read
CreateBody(c) ==
    ReadCreated(Checked(Exec(c, "CREATE", c.d.cur.name, CreateClauses(c.d, c.feat))))

\* lines 122-213: the grant's error is returned before the revoke is deferred
CreateBracketed(c) ==
    IF c.err # "none" THEN c ELSE DeferredRevoke(CreateBody(c))

resourcePostgreSQLDatabaseCreate(c) ==
    CreateBracketed(grantRoleMembership(c, c.d.cur.owner, ConnUser))

(***************************************************************************)
(* The attribute setters of Update                                         *)
(***************************************************************************)
\* mutant: the id becomes the new name whether or not the rename was accepted
SetNewIdAlways(c) == SetId(c, c.d.new.name)

\* mutant: the id stays the old name after the rename
SetNewIdKeepsOld(c) == IF c.err # "none" THEN c ELSE SetId(c, c.d.old.name)

\* line 407
SetNewId(c) == IF c.err # "none" THEN c ELSE SetId(c, c.d.new.name)

\* mutant: the new name is not checked for the empty string
setDBNameUnvalidated(c) ==
    IF ~HasChange(c.d, "name") THEN c
    ELSE SetNewId(Checked(Exec(c, "RENAME", c.d.old.name, c.d.new.name)))

setDBName(c) ==
    IF ~HasChange(c.d, "name") THEN c
    ELSE IF c.d.new.name = "" THEN Fail(c, "ValidationError")
    ELSE SetNewId(Checked(Exec(c, "RENAME", c.d.old.name, c.d.new.name)))

\* lines 435-441, bracketed by the grant and the deferred revoke
OwnerBody(c) == Checked(Exec(c, "OWNER", c.d.cur.name, c.d.cur.owner))

\* lines 423-441: the grant's error is returned before the revoke is deferred
OwnerBracketed(c) ==
    IF c.err # "none" THEN c ELSE DeferredRevoke(OwnerBody(c))

setDBOwner(c) ==
    IF ~HasChange(c.d, "owner") THEN c
    ELSE IF c.d.cur.owner = "" THEN c
    ELSE OwnerBracketed(grantRoleMembership(c, c.d.cur.owner, ConnUser))

\* mutant: the tablespace statement is sent whether or not the attribute changed
setDBTablespaceAlways(c) ==
    IF c.d.cur.tablespace_name = "" \/ ToUpper(c.d.cur.tablespace_name) = "DEFAULT"
    THEN Checked(Exec(c, "RESET_TABLESPACE", c.d.cur.name, ""))
    ELSE Checked(Exec(c, "TABLESPACE", c.d.cur.name, c.d.cur.tablespace_name))

setDBTablespace(c) ==
    IF ~HasChange(c.d, "tablespace_name") THEN c
    ELSE IF c.d.cur.tablespace_name = "" \/ ToUpper(c.d.cur.tablespace_name) = "DEFAULT"
    THEN Checked(Exec(c, "RESET_TABLESPACE", c.d.cur.name, ""))
    ELSE Checked(Exec(c, "TABLESPACE", c.d.cur.name, c.d.cur.tablespace_name))

\* mutant: the statement is sent whether or not the attribute changed
setDBConnLimitAlways(c) ==
    Checked(Exec(c, "CONNLIMIT", c.d.cur.name, c.d.cur.connection_limit))

setDBConnLimit(c) ==
    IF ~HasChange(c.d, "connection_limit") THEN c
    ELSE Checked(Exec(c, "CONNLIMIT", c.d.cur.name, c.d.cur.connection_limit))

setDBAllowConns(c) ==
    IF ~HasChange(c.d, "allow_connections") THEN c
    ELSE IF FeatureAllowConns \notin c.feat THEN Fail(c, "UnsupportedFeature")
    ELSE Checked(Exec(c, "ALLOWCONN", c.d.cur.name, c.d.cur.allow_connections))

doSetDBIsTemplate(c, dbName, isTemplate) ==
    IF FeatureIsTemplate \notin c.feat THEN Fail(c, "UnsupportedFeature")
    ELSE Checked(Exec(c, "ISTEMPLATE", dbName, isTemplate))

setDBIsTemplate(c) ==
    IF ~HasChange(c.d, "is_template") THEN c
    ELSE doSetDBIsTemplate(c, c.d.cur.name, c.d.cur.is_template)

(***************************************************************************)
(* resourcePostgreSQLDatabaseUpdate                                        *)
(***************************************************************************)
\* line 388, reached when every setter returned nil
UpdateReRead(c) ==
    IF c.err # "none" THEN c ELSE resourcePostgreSQLDatabaseReadImpl(c)

\* lines 382-384
UpdateIsTemplate(c) ==
    IF c.err # "none" THEN c ELSE UpdateReRead(setDBIsTemplate(c))

\* lines 378-380
UpdateAllowConns(c) ==
    IF c.err # "none" THEN c ELSE UpdateIsTemplate(setDBAllowConns(c))

\* mutant: the error of the tablespace step is not returned
UpdateConnLimitIgnoresError(c) == UpdateAllowConns(setDBConnLimit(c))

\* lines 374-376
UpdateConnLimit(c) ==
    IF c.err # "none" THEN c ELSE UpdateAllowConns(setDBConnLimit(c))

\* mutant: the connection limit is set before the tablespace
UpdateConnLimitBeforeTablespace(c) ==
    IF c.err # "none" THEN c
    ELSE IF setDBConnLimit(c).err # "none" THEN setDBConnLimit(c)
    ELSE UpdateAllowConns(setDBTablespace(setDBConnLimit(c)))

\* lines 370-372
UpdateTablespace(c) ==
    IF c.err # "none" THEN c ELSE UpdateConnLimit(setDBTablespace(c))

\* lines 366-368
UpdateOwner(c) ==
    IF c.err # "none" THEN c ELSE UpdateTablespace(setDBOwner(c))

resourcePostgreSQLDatabaseUpdate(c) == UpdateOwner(setDBName(c))

(***************************************************************************)
(* resourcePostgreSQLDatabaseDelete                                        *)
(***************************************************************************)
\* mutant: the failure of the clearing statement is not checked
ClearTemplateUnchecked(c) ==
    IF FeatureIsTemplate \in c.feat /\ c.d.cur.is_template
    THEN [doSetDBIsTemplate(c, c.d.cur.name, FALSE) EXCEPT !.err = "none"]
    ELSE c

\* lines 223-231: a template database has the flag cleared before the drop
ClearTemplate(c) ==
    IF FeatureIsTemplate \in c.feat /\ c.d.cur.is_template
    THEN doSetDBIsTemplate(c, c.d.cur.name, FALSE)
    ELSE c

\* line 242
ClearId(c) == IF c.err # "none" THEN c ELSE SetId(c, "")

\* lines 237-242
Drop(c) ==
    IF c.err # "none" THEN c
    ELSE ClearId(Checked(Exec(c, "DROP", c.d.cur.name, "")))

\* lines 233-242
DeleteIsTemplate(c) ==
    IF c.err # "none" THEN c ELSE Drop(setDBIsTemplate(c))

\* mutant: a DROP the server rejects counts as done
DeleteIgnoresDropFailure(c) ==
    IF DeleteIsTemplate(ClearTemplate(c)).err = "StoreError"
       /\ DeleteIsTemplate(ClearTemplate(c)).log[Len(DeleteIsTemplate(ClearTemplate(c)).log)].kind = "DROP"
    THEN SetId([DeleteIsTemplate(ClearTemplate(c)) EXCEPT !.err = "none"], "")
    ELSE DeleteIsTemplate(ClearTemplate(c))

resourcePostgreSQLDatabaseDelete(c) == DeleteIsTemplate(ClearTemplate(c))

(***************************************************************************)
(* resourcePostgreSQLDatabaseExists / resourcePostgreSQLDatabaseRead       *)
(***************************************************************************)
\* lines 254-261
ExistsResult(q) ==
    IF q.last = "norows" THEN [q EXCEPT !.found = FALSE]
    ELSE IF q.last # "ok" THEN [Fail(q, "StoreError") EXCEPT !.found = FALSE]
    ELSE [q EXCEPT !.found = TRUE]

\* mutant: the probe does the full read, which clears the id of an absent object
ExistsByFullRead(c) ==
    [resourcePostgreSQLDatabaseReadImpl(c) EXCEPT
        !.found = resourcePostgreSQLDatabaseReadImpl(c).d.id # ""]

resourcePostgreSQLDatabaseExists(c) ==
    ExistsResult(Exec(c, "SELECT_EXISTS", c.d.id, ""))

resourcePostgreSQLDatabaseRead(c) == resourcePostgreSQLDatabaseReadImpl(c)

(***************************************************************************)
(* The host: it stores d.State() when a handler returns, refreshes a       *)
(* resource before it plans an Update or a Delete, and moves on            *)
(***************************************************************************)
NoCall ==
    [op |-> "none", again |-> FALSE, d0 |-> NewData("", ZeroAttrs, ZeroAttrs),
     d |-> NewData("", ZeroAttrs, ZeroAttrs), cat0 |-> <<>>, mem0 |-> {},
     log |-> <<>>, err |-> "none", found |-> FALSE]

Returned(op, c0, c) ==
    [op |-> op, again |-> FALSE, d0 |-> c0.d, d |-> c.d, cat0 |-> c0.cat, mem0 |-> c0.mem,
     log |-> c.log, err |-> c.err, found |-> c.found]

Idle == call.op = "none" /\ mode = "free"

HasRevoke(log) == \E i \in 1..Len(log) : log[i].kind = "REVOKE"

\* The faults one invocation can meet: a failing run is a prefix of the run
\* without faults, so the failing call is one of its calls, and the REVOKE can
\* fail only if one is sent.
OraclesOf(c) ==
    [failAt : 0..c.n, revokeFails : IF HasRevoke(c.log) THEN BOOLEAN ELSE {FALSE}]

Ctx(d, orc) == NewCtx(d, features, catalog, members, orc)

\* the handler has returned c from the entry context c0
Finish(op, c0, c) ==
    /\ call' = [Returned(op, c0, c) EXCEPT !.again = (call.op = "Update")]
    /\ catalog' = c.cat
    /\ members' = c.mem
    /\ res' = IF op = "Exists" THEN res ELSE StateOf(c.d)
    /\ synced' = IF op = "Exists" THEN synced ELSE (c.err = "none")
    /\ UNCHANGED <<features, mode, holders, pc>>

ConnLimits == {-1, 50}
TablespaceValues == {"", "default", "ts1", DefaultTablespace}

\* a configuration that sets only the name: every optional attribute unset,
\* connection_limit and allow_connections at their schema defaults
SchemaDefaults(n) ==
    [ZeroAttrs EXCEPT !.name = n, !.connection_limit = -1, !.allow_connections = TRUE]

NumChanged(a, b) == Cardinality({k \in DOMAIN a : a[k] # b[k]})

\* planned values of a new resource
CreateConfigs(forceNew) ==
    [name : Names, owner : OwnerValues,
     template : IF forceNew THEN {"", "DEFAULT", "default", "tmpl1"} ELSE {""},
     encoding : IF forceNew THEN {"", "default", "LATIN9"} ELSE {""},
     lc_collate : IF forceNew THEN {"", "DEFAULT", "de_DE"} ELSE {""},
     lc_ctype : IF forceNew THEN {"", "DEFAULT", "de_DE"} ELSE {""},
     tablespace_name : {"", "DEFAULT", "ts1"},
     connection_limit : ConnLimits, allow_connections : BOOLEAN,
     is_template : BOOLEAN]

\* planned values of an existing resource: the attributes Update handles may
\* differ from the prior state, the ForceNew ones cannot
UpdatePlans(a) ==
    {[a EXCEPT !.name = n, !.owner = o, !.tablespace_name = t,
               !.connection_limit = l, !.allow_connections = ac, !.is_template = it] :
        n \in Names \cup {""}, o \in OwnerValues, t \in TablespaceValues,
        l \in ConnLimits, ac \in BOOLEAN, it \in BOOLEAN}

UpdateConfigs(a) == {cfg \in UpdatePlans(a) : NumChanged(cfg, a) <= MaxChanges}

\* Create is called for a resource that has no id yet
CanCreate == Idle /\ res.id = ""

CreateWith(cfg) ==
    LET d == NewData("", ZeroAttrs, cfg) IN
    \E orc \in OraclesOf(resourcePostgreSQLDatabaseCreate(Ctx(d, NoFault))) :
       Finish("Create", Ctx(d, orc), resourcePostgreSQLDatabaseCreate(Ctx(d, orc)))

Create ==
    /\ CanCreate
    /\ \E cfg \in CreateConfigs(FALSE) : CreateWith(cfg)

CreateAny ==
    /\ CanCreate
    /\ \E cfg \in CreateConfigs(TRUE) :
          /\ NumChanged(cfg, SchemaDefaults(cfg.name)) <= MaxChanges
          /\ CreateWith(cfg)

Read ==
    /\ Idle
    /\ res.id # ""
    /\ LET d == NewData(res.id, res.attrs, res.attrs) IN
       \E orc \in OraclesOf(resourcePostgreSQLDatabaseRead(Ctx(d, NoFault))) :
          Finish("Read", Ctx(d, orc), resourcePostgreSQLDatabaseRead(Ctx(d, orc)))

Exists ==
    /\ Idle
    /\ res.id # ""
    /\ LET d == NewData(res.id, res.attrs, res.attrs) IN
       \E orc \in OraclesOf(resourcePostgreSQLDatabaseExists(Ctx(d, NoFault))) :
          Finish("Exists", Ctx(d, orc), resourcePostgreSQLDatabaseExists(Ctx(d, orc)))

Update ==
    /\ Idle
    /\ res.id # ""
    /\ synced
    /\ \E cfg \in UpdateConfigs(res.attrs) :
       LET d == NewData(res.id, res.attrs, cfg) IN
       \E orc \in OraclesOf(resourcePostgreSQLDatabaseUpdate(Ctx(d, NoFault))) :
          Finish("Update", Ctx(d, orc), resourcePostgreSQLDatabaseUpdate(Ctx(d, orc)))

\* the host applies the configuration of the Update that just succeeded once
\* more: the prior state is the state that Update returned
Reapply ==
    /\ call.op = "Update"
    /\ ~call.again
    /\ call.err = "none"
    /\ res.id # ""
    /\ LET d == NewData(res.id, res.attrs, call.d0.new) IN
       \E orc \in OraclesOf(resourcePostgreSQLDatabaseUpdate(Ctx(d, NoFault))) :
          Finish("Update", Ctx(d, orc), resourcePostgreSQLDatabaseUpdate(Ctx(d, orc)))

Delete ==
    /\ Idle
    /\ res.id # ""
    /\ synced
    /\ LET d == NewData(res.id, res.attrs, res.attrs) IN
       \E orc \in OraclesOf(resourcePostgreSQLDatabaseDelete(Ctx(d, NoFault))) :
          Finish("Delete", Ctx(d, orc), resourcePostgreSQLDatabaseDelete(Ctx(d, orc)))

\* schema.ImportStatePassthrough: the id given on the command line becomes the
\* resource id; the host reads the resource next
Import ==
    /\ Idle
    /\ res.id = ""
    /\ \E n \in Names : res' = [id |-> n, attrs |-> ZeroAttrs]
    /\ synced' = FALSE
    /\ UNCHANGED <<features, catalog, members, call, mode, holders, pc>>

\* another session drops the database (why Read handles sql.ErrNoRows)
ExternalDrop ==
    /\ Idle
    /\ \E n \in Names :
          /\ catalog[n].present
          /\ catalog' = [catalog EXCEPT ![n] = NoRow]
    /\ UNCHANGED <<features, members, res, synced, call, mode, holders, pc>>

\* the host is done with the result of the last invocation
Return ==
    /\ call.op # "none"
    /\ call' = NoCall
    /\ UNCHANGED <<features, catalog, members, res, synced, mode, holders, pc>>

(***************************************************************************)
(* The catalog lock, a sync.RWMutex, taken by concurrent invocations.      *)
(* A goroutine is idle, about to take the lock ("lock"), a writer queued   *)
(* in Lock() ("wait"), or inside its locked section ("in"), where it sends *)
(* its statements one by one and then returns through the deferred unlock. *)
(***************************************************************************)
Procs == 1..NumProcs
WriteOps == {"Create", "Update", "Delete"}
ReadOps == {"Read", "Exists"}
IdlePc == [op |-> "none", at |-> "idle", sent |-> 0]

\* a writer is queued in Lock() or holds the lock: sync.RWMutex makes RLock and
\* other Lock calls wait behind it
WriterAhead == \E q \in Procs : pc[q].op \in WriteOps /\ pc[q].at \in {"wait", "in"}

\* statements a handler has sent at least when it returns: Update can return
\* from setDBName before any statement, the others return after a first one
MinSends(op) == IF op = "Update" THEN 0 ELSE 1

\* the host calls a handler on goroutine p
Invoke(p) ==
    /\ pc[p].at = "idle"
    /\ \E op \in WriteOps \cup ReadOps :
          pc' = [pc EXCEPT ![p] = [op |-> op, at |-> "lock", sent |-> 0]]
    /\ UNCHANGED <<features, catalog, members, res, synced, call, mode, holders>>

\* c.catalogLock.Lock() is entered: the writer queues, RLock calls made from
\* now on wait behind it
LockPending(p) ==
    /\ pc[p].at = "lock"
    /\ pc[p].op \in WriteOps
    /\ ~WriterAhead
    /\ pc' = [pc EXCEPT ![p].at = "wait"]
    /\ UNCHANGED <<features, catalog, members, res, synced, call, mode, holders>>

\* mutant: the writer does not wait for the readers inside to leave
LockIgnoresReaders(p) ==
    /\ pc[p].at = "wait"
    /\ mode' = "write"
    /\ holders' = holders \cup {p}
    /\ pc' = [pc EXCEPT ![p].at = "in"]
    /\ UNCHANGED <<features, catalog, members, res, synced, call>>

\* c.catalogLock.Lock() returns: the readers that were inside have left
Lock(p) ==
    /\ pc[p].at = "wait"
    /\ mode = "free"
    /\ mode' = "write"
    /\ holders' = {p}
    /\ pc' = [pc EXCEPT ![p].at = "in"]
    /\ UNCHANGED <<features, catalog, members, res, synced, call>>

\* mutant: a reader does not wait for the writer
RLockIgnoresWriter(p) ==
    /\ pc[p].at = "lock"
    /\ pc[p].op \in ReadOps
    /\ mode' = IF mode = "write" THEN "write" ELSE "read"
    /\ holders' = holders \cup {p}
    /\ pc' = [pc EXCEPT ![p].at = "in"]
    /\ UNCHANGED <<features, catalog, members, res, synced, call>>

\* c.catalogLock.RLock()
RLock(p) ==
    /\ pc[p].at = "lock"
    /\ pc[p].op \in ReadOps
    /\ ~WriterAhead
    /\ mode' = "read"
    /\ holders' = holders \cup {p}
    /\ pc' = [pc EXCEPT ![p].at = "in"]
    /\ UNCHANGED <<features, catalog, members, res, synced, call>>

\* c.DB().Exec / c.DB().QueryRow inside a handler: the server executes the
\* statement
Send(p) ==
    /\ pc[p].at = "in"
    /\ pc[p].sent < MaxSends
    /\ pc' = [pc EXCEPT ![p].sent = @ + 1]
    /\ UNCHANGED <<features, catalog, members, res, synced, call, mode, holders>>

\* mutant: the handler returns without releasing the lock
UnlockMissing(p) ==
    /\ pc[p].at = "in"
    /\ pc[p].op \in WriteOps
    /\ pc[p].sent >= MinSends(pc[p].op)
    /\ pc' = [pc EXCEPT ![p] = IdlePc]
    /\ UNCHANGED <<features, catalog, members, res, synced, call, mode, holders>>

\* the handler returns: defer c.catalogLock.Unlock()
Unlock(p) ==
    /\ pc[p].at = "in"
    /\ pc[p].op \in WriteOps
    /\ pc[p].sent >= MinSends(pc[p].op)
    /\ mode' = "free"
    /\ holders' = {}
    /\ pc' = [pc EXCEPT ![p] = IdlePc]
    /\ UNCHANGED <<features, catalog, members, res, synced, call>>

\* the handler returns: defer c.catalogLock.RUnlock()
RUnlock(p) ==
    /\ pc[p].at = "in"
    /\ pc[p].op \in ReadOps
    /\ pc[p].sent >= MinSends(pc[p].op)
    /\ holders' = holders \ {p}
    /\ mode' = IF holders \ {p} = {} THEN "free" ELSE "read"
    /\ pc' = [pc EXCEPT ![p] = IdlePc]
    /\ UNCHANGED <<features, catalog, members, res, synced, call>>

(***************************************************************************)
(* Specifications                                                          *)
(***************************************************************************)
Init ==
    /\ features \in SUBSET AllFeatures
    /\ catalog = [n \in Names |-> NoRow]
    /\ members \in SUBSET {"app_role"}
    /\ res = [id |-> "", attrs |-> ZeroAttrs]
    /\ synced = FALSE
    /\ call = NoCall
    /\ mode = "free"
    /\ holders = {}
    /\ pc = [p \in Procs |-> IdlePc]

\* one resource through its life cycle, one invocation at a time
Next ==
    \/ Create
    \/ Read
    \/ Exists
    \/ Update
    \/ Reapply
    \/ Delete
    \/ Import
    \/ ExternalDrop
    \/ Return

Spec == Init /\ [][Next]_vars

\* the life cycle of a resource whose database only these handlers touch: no
\* import of a name, no other session
NextManaged ==
    \/ Create
    \/ Read
    \/ Exists
    \/ Update
    \/ Reapply
    \/ Delete
    \/ Return

SpecManaged == Init /\ [][NextManaged]_vars

\* Create over every combination of the ForceNew attributes
NextCreate ==
    \/ CreateAny
    \/ Return

SpecCreate == Init /\ [][NextCreate]_vars

\* the lock model does not look at the server: one capability set, no membership
InitLock ==
    /\ features = AllFeatures
    /\ catalog = [n \in Names |-> NoRow]
    /\ members = {}
    /\ res = [id |-> "", attrs |-> ZeroAttrs]
    /\ synced = FALSE
    /\ call = NoCall
    /\ mode = "free"
    /\ holders = {}
    /\ pc = [p \in Procs |-> IdlePc]

\* handlers invoked concurrently on one client
NextLock ==
    \E p \in Procs :
        \/ Invoke(p)
        \/ LockPending(p)
        \/ Lock(p)
        \/ RLock(p)
        \/ Send(p)
        \/ Unlock(p)
        \/ RUnlock(p)

SpecLock == InitLock /\ [][NextLock]_vars

\* the step goroutine p takes next inside a handler
Proceed(p) ==
    \/ LockPending(p)
    \/ Lock(p)
    \/ RLock(p)
    \/ Send(p)
    \/ Unlock(p)
    \/ RUnlock(p)

\* Scheduling: a goroutine that can run again and again does (every store call
\* returns, the handler goes on to its return); sync.RWMutex lets a queued
\* writer in once the readers inside have left, lets the readers waiting in
\* when a writer unlocks, and its writers' mutex does not starve a writer.
FairLock == \A p \in Procs : SF_vars(Proceed(p))

SpecLockFair == SpecLock /\ FairLock

(***************************************************************************)
(* Properties                                                              *)
(***************************************************************************)
Log == call.log
Idx == 1..Len(call.log)
Sent(kind) == {i \in Idx : Log[i].kind = kind}
SentOk(kind) == {i \in Sent(kind) : Log[i].res = "ok"}
Mutating == {i \in Idx : ~IsQuery(Log[i].kind)}

\* the statement bracketed by the owner grant: CREATE DATABASE, or OWNER TO
Bracketed == Sent("CREATE") \cup Sent("OWNER")
\* owner grants that succeeded, or were treated as success
Granted == {i \in Sent("GRANT") : Log[i].res \in {"ok", "dup"}}
RevokesOf(i) ==
    {j \in Sent("REVOKE") : j > i /\ Log[j].arg = Log[i].arg /\ Log[j].db = Log[i].db}

\* C1: in Create and in Update, when the owner GRANT was issued, the bracketed
\* statement (CREATE DATABASE, ALTER DATABASE OWNER TO) succeeded and the
\* following REVOKE failed, the operation returns an error.
C1_RevokeFailureReturned ==
    (/\ call.op \in {"Create", "Update"}
     /\ \E i \in Granted, j \in Bracketed, k \in Sent("REVOKE") :
           i < j /\ j < k /\ Log[j].res = "ok" /\ Log[k].res = "error")
    => call.err # "none"

\* C2: in Create and in Update, every owner GRANT that succeeded (or hit the
\* duplicate-membership answer) is followed, before the operation returns, by
\* exactly one REVOKE of the same role from the same grantee, and no REVOKE is
\* sent without such a GRANT.
C2_GrantPairedWithRevoke ==
    call.op \in {"Create", "Update"} =>
        /\ \A i \in Granted : Cardinality(RevokesOf(i)) = 1
        /\ Cardinality(Sent("REVOKE")) = Cardinality(Granted)

\* C2 witness: the grant succeeded, the bracketed statement failed, and the
\* revoke was still sent
C2_Witness ==
    /\ call.op = "Create"
    /\ \E i \in Granted, j \in Sent("CREATE"), k \in Sent("REVOKE") :
          i < j /\ j < k /\ Log[j].res = "error"

\* goroutines inside the locked section of a handler
Inside(ops) == {p \in Procs : pc[p].at = "in" /\ pc[p].op \in ops}

\* C3: at most one Create/Update/Delete is inside its locked section, and while
\* one is, no Read or Exists is inside its locked section.
C3_WritersExclusive ==
    /\ Cardinality(Inside(WriteOps)) <= 1
    /\ Inside(WriteOps) # {} => Inside(ReadOps) = {}

\* C3 witness: two Read/Exists invocations are inside their locked sections at
\* the same time while a Create/Update/Delete waits for the lock
C3_Witness ==
    /\ Cardinality(Inside(ReadOps)) >= 2
    /\ \E p \in Procs : pc[p].at = "lock" /\ pc[p].op \in WriteOps

\* statements of a Delete that set IS_TEMPLATE to false for the database
ClearsOf(db) == {i \in Sent("ISTEMPLATE") : Log[i].db = db /\ Log[i].arg = FALSE}

ClearedBeforeDrop ==
    /\ ClearsOf(call.d0.cur.name) # {}
    /\ \A j \in Sent("DROP") :
          \E i \in ClearsOf(call.d0.cur.name) : i < j /\ Log[i].res = "ok"

\* C4 as claimed: Delete on an object whose is-template flag is true always
\* sends a statement setting IS_TEMPLATE to false for it strictly before the
\* DROP DATABASE, and sends the DROP only if that statement succeeded.
C4_ClearBeforeDrop ==
    (call.op = "Delete" /\ call.d0.cur.is_template) => ClearedBeforeDrop

\* C4 amended: the same, on a server that has the is-template capability.
C4_ClearBeforeDropWhenCapable ==
    (call.op = "Delete" /\ call.d0.cur.is_template /\ FeatureIsTemplate \in features)
    => ClearedBeforeDrop

\* C4 witness: a template database was cleared and then dropped
C4_Witness ==
    /\ call.op = "Delete"
    /\ call.d0.cur.is_template
    /\ FeatureIsTemplate \in features
    /\ SentOk("DROP") # {}
    /\ call.d.id = ""


\* the plan of the invocation manages a gated attribute the server lacks
ManagesMissing(k, feature) ==
    /\ feature \notin features
    /\ \/ call.op = "Create" /\ call.d0.new[k] # SchemaDefaults("")[k]
       \/ call.op = "Update" /\ HasChange(call.d0, k)

\* C5: a Create or Update whose plan sets allow-connections or is-template
\* while the capability is missing returns UnsupportedFeature and sends no
\* statement at all.
C5_GatedAttributeRejected ==
    (\/ ManagesMissing("allow_connections", FeatureAllowConns)
     \/ ManagesMissing("is_template", FeatureIsTemplate))
    => (call.err = "UnsupportedFeature" /\ Log = <<>>)

\* position of a statement kind in the order of Update
Rank(kind) ==
    CASE kind = "RENAME" -> 1
      [] kind = "GRANT" -> 2
      [] kind = "OWNER" -> 3
      [] kind = "REVOKE" -> 4
      [] kind \in {"TABLESPACE", "RESET_TABLESPACE"} -> 5
      [] kind = "CONNLIMIT" -> 6
      [] kind = "ALLOWCONN" -> 7
      [] kind = "ISTEMPLATE" -> 8
      [] kind = "SELECT_OWNER" -> 9
      [] kind = "SELECT_ATTRS" -> 10
      [] kind = "SELECT_ALLOWCONN" -> 11
      [] kind = "SELECT_ISTEMPLATE" -> 12
      [] OTHER -> 0

\* C6: the statements of one Update appear in the order rename, owner (GRANT,
\* OWNER TO, REVOKE), tablespace, connection limit, allow-connections,
\* is-template, then the re-read; each at most once.
C6_UpdateStatementOrder ==
    call.op = "Update" =>
        \A i, j \in Idx : i < j => (0 < Rank(Log[i].kind) /\ Rank(Log[i].kind) < Rank(Log[j].kind))

\* C6 witness: name and owner both change, RENAME is sent before the GRANT and
\* the OWNER TO, and a later attribute statement follows
C6_Witness ==
    /\ call.op = "Update"
    /\ \E i \in Sent("RENAME"), g \in Sent("GRANT"), j \in Sent("OWNER"), k \in Mutating :
          i < g /\ g < j /\ j < k /\ Log[k].kind \in {"CONNLIMIT", "ISTEMPLATE", "ALLOWCONN", "TABLESPACE"}


FailedQueries == {i \in Idx : IsQuery(Log[i].kind) /\ Log[i].res = "error"}

\* C7 as claimed: an Update whose desired state equals the prior state on
\* every attribute sends no mutating statement and returns success, and the
\* same Update applied again after it succeeded sends none either.
C7_UpdateIdempotent ==
    /\ (call.op = "Update" /\ call.d0.new = call.d0.old)
          => (Mutating = {} /\ call.err = "none")
    /\ (call.op = "Update" /\ call.again) => Mutating = {}

\* C7 amended: such an Update sends no mutating statement, and returns an
\* error only when a query of the re-read failed; the same Update applied again
\* sends no statement other than the RESET TABLESPACE of a desired tablespace
\* that is empty or the DEFAULT sentinel.
C7_UpdateIdempotentAmended ==
    /\ (call.op = "Update" /\ call.d0.new = call.d0.old)
          => /\ Mutating = {}
             /\ call.err # "none" => (call.err = "StoreError" /\ FailedQueries # {})
    /\ (call.op = "Update" /\ call.again)
          => \A i \in Mutating :
                /\ Log[i].kind = "RESET_TABLESPACE"
                /\ call.d0.new.tablespace_name \in {"", "default"}
                /\ call.d0.old.tablespace_name = DefaultTablespace

\* C7 witness: an Update applied a second time finds nothing to change, sends
\* only the queries of the re-read and returns success
C7_Witness ==
    /\ call.op = "Update"
    /\ call.again
    /\ call.d0.new = call.d0.old
    /\ Mutating = {}
    /\ Len(Log) >= 2
    /\ call.err = "none"


Created == call.op = "Create" /\ call.err = "none" /\ call.d.id # ""

Managed ==
    {"name", "owner", "encoding", "lc_collate", "lc_ctype", "tablespace_name",
     "connection_limit", "allow_connections", "is_template"}

\* C8 as claimed: the state read back after a successful Create equals the
\* desired state on every managed attribute.
C8_RoundTrip ==
    Created => \A k \in Managed : call.d.cur[k] = call.d0.new[k]

\* what a desired string value reads back as: itself when given explicitly, a
\* fixed default when unset, the server's choice for the DEFAULT sentinel
ReadsBack(want, unset, server) ==
    IF want = "" THEN unset
    ELSE IF ToUpper(want) = "DEFAULT" THEN server
    ELSE want

\* C8 amended: after a successful Create the state read back equals the desired
\* state on name and connection limit and on each of owner, encoding, collation,
\* ctype and tablespace that is given explicitly; an unset owner reads back as
\* the connection user, unset encoding/collation/ctype as UTF8/C/C, an unset
\* tablespace and every DEFAULT sentinel as the server's own value; the two
\* flags keep their desired value, which is the catalog's when the capability is
\* present.
C8_RoundTripAmended ==
    Created =>
        LET want == call.d0.new
            got == call.d.cur
            row == catalog[call.d.id]
        IN  /\ got.name = want.name
            /\ got.connection_limit = want.connection_limit
            /\ row.datconnlimit = want.connection_limit
            /\ got.owner = IF want.owner = "" THEN ConnUser ELSE want.owner
            /\ got.encoding = ReadsBack(want.encoding, "UTF8", ServerEncoding)
            /\ got.lc_collate = ReadsBack(want.lc_collate, "C", ServerLocale)
            /\ got.lc_ctype = ReadsBack(want.lc_ctype, "C", ServerLocale)
            /\ got.tablespace_name =
                  ReadsBack(want.tablespace_name, DefaultTablespace, DefaultTablespace)
            /\ got.allow_connections = want.allow_connections
            /\ got.is_template = want.is_template
            /\ FeatureAllowConns \in features => row.datallowconn = want.allow_connections
            /\ FeatureIsTemplate \in features => row.datistemplate = want.is_template

\* C8 witness: a Create with explicit owner, encoding and tablespace succeeded
\* and read them back
C8_Witness ==
    /\ Created
    /\ call.d0.new.owner = "app_role"
    /\ call.d0.new.encoding = "LATIN9"
    /\ call.d0.new.tablespace_name = "ts1"
    /\ \A k \in Managed \ {"lc_collate", "lc_ctype"} : call.d.cur[k] = call.d0.new[k]


\* the identity of the invocation had no catalog row when the handler started
AbsentAtEntry == ~RowOf(call.cat0, call.d0.id).present

\* C9 as claimed: Delete on an identity that is not in the catalog returns
\* success and leaves the resource with a cleared identity.
C9_DeleteAbsentSucceeds ==
    (call.op = "Delete" /\ AbsentAtEntry) => (call.err = "none" /\ call.d.id = "")

\* C9 amended: Delete on an identity that is not in the catalog makes no
\* existence check: it sends its statements, the server rejects the first one,
\* Delete returns that error and the identity stays as it was.
C9_DeleteAbsentReturnsStoreError ==
    (call.op = "Delete" /\ AbsentAtEntry) =>
        /\ Len(Log) = 1
        /\ Log[1].kind \in {"DROP", "ISTEMPLATE"}
        /\ Log[1].db = call.d0.id
        /\ Log[1].res = "error"
        /\ call.err = "StoreError"
        /\ call.d.id = call.d0.id

\* C9 witness: the DROP of a database that another session already dropped
C9_Witness ==
    /\ call.op = "Delete"
    /\ AbsentAtEntry
    /\ Sent("DROP") # {}
    /\ call.d.id # ""


NotFound ==
    \E i \in Sent("SELECT_OWNER") \cup Sent("SELECT_ATTRS") : Log[i].res = "norows"

\* C10: when the read of Read, or the re-read of Create and Update, finds no
\* catalog row, the handler returns success with the identity cleared and every
\* attribute as it was; an absent identity makes Read return an error only if
\* the query itself failed, and makes Exists return false with no error.
C10_AbsentIsNotAnError ==
    /\ (call.op \in {"Read", "Create", "Update"} /\ NotFound)
          => (call.err = "none" /\ call.d.id = "" /\ call.d.cur = call.d0.cur)
    /\ (call.op = "Read" /\ AbsentAtEntry)
          => (Len(Log) = 1 /\ (Log[1].res = "error" \/ NotFound))
    /\ (call.op = "Exists" /\ AbsentAtEntry /\ FailedQueries = {})
          => (~call.found /\ call.err = "none" /\ call.d = call.d0)

\* C10 witness: Read of a resource whose database is gone
C10_Witness ==
    /\ call.op = "Read"
    /\ AbsentAtEntry
    /\ call.d0.cur.name # ""
    /\ NotFound
    /\ call.d.id = ""

\* statements and queries of the invocation that name a gated attribute: its
\* ALTER, its query, or a CREATE DATABASE that carries its clause
RefersTo(alter, query, clause) ==
    {i \in Idx : \/ Log[i].kind \in {alter, query}
                 \/ Log[i].kind = "CREATE" /\ Log[i].arg[clause] # "none"}

\* C11: when the allow-connections (is-template) capability is missing, no
\* statement or query of any Create, Read, Update, Delete or Exists refers to
\* that attribute: no ALLOW_CONNECTIONS (IS_TEMPLATE) clause or ALTER, no
\* datallowconn (datistemplate) query.
C11_GatedAttributeNeverReferenced ==
    /\ FeatureAllowConns \notin features
          => RefersTo("ALLOWCONN", "SELECT_ALLOWCONN", "allow_connections") = {}
    /\ FeatureIsTemplate \notin features
          => RefersTo("ISTEMPLATE", "SELECT_ISTEMPLATE", "is_template") = {}

\* C11 witness: on a server with neither capability a Create whose plan sets
\* both gated attributes sent CREATE DATABASE and completed the re-read
C11_Witness ==
    /\ features = {}
    /\ call.op = "Create"
    /\ ~call.d0.new.allow_connections
    /\ call.d0.new.is_template
    /\ SentOk("CREATE") # {}
    /\ SentOk("SELECT_ATTRS") # {}
    /\ call.err = "none"


\* the attribute a mutating statement of Update belongs to
AttrOf(kind) ==
    CASE kind = "RENAME" -> "name"
      [] kind \in {"GRANT", "OWNER", "REVOKE"} -> "owner"
      [] kind \in {"TABLESPACE", "RESET_TABLESPACE"} -> "tablespace_name"
      [] kind = "CONNLIMIT" -> "connection_limit"
      [] kind = "ALLOWCONN" -> "allow_connections"
      [] kind = "ISTEMPLATE" -> "is_template"
      [] OTHER -> "none"

Alters == Mutating \ (Sent("GRANT") \cup Sent("REVOKE"))

OnlyConnLimitChanges ==
    {k \in DOMAIN call.d0.old : HasChange(call.d0, k)} = {"connection_limit"}

\* C12: Update sends a statement for an attribute only if the attribute's
\* desired value differs from the prior state, and at most one ALTER per
\* attribute; an Update that changes only the connection limit sends exactly
\* one statement, the connection-limit assignment with the new value.
C12_UpdateOnlyWhatDiffers ==
    call.op = "Update" =>
        /\ \A i \in Mutating : HasChange(call.d0, AttrOf(Log[i].kind))
        /\ \A i, j \in Alters : AttrOf(Log[i].kind) = AttrOf(Log[j].kind) => i = j
        /\ OnlyConnLimitChanges =>
              /\ Cardinality(Mutating) = 1
              /\ \A i \in Mutating :
                    /\ Log[i].kind = "CONNLIMIT"
                    /\ Log[i].db = call.d0.old.name
                    /\ Log[i].arg = call.d0.new.connection_limit

\* C12 witness: the connection limit alone goes from -1 to 50
C12_Witness ==
    /\ call.op = "Update"
    /\ OnlyConnLimitChanges
    /\ call.d0.old.connection_limit = -1
    /\ \E i \in SentOk("CONNLIMIT") : Log[i].arg = 50
    /\ call.err = "none"
    /\ call.d.cur.connection_limit = 50


\* C13: the CREATE DATABASE statement of Create names one template: template0
\* when none is given, the DEFAULT sentinel when the template is DEFAULT in any
\* case, else the given name; unset encoding, collation and ctype are written
\* as UTF8, C and C, and an unset owner as the connection user.
C13_CreateDefaults ==
    call.op = "Create" =>
        \A i \in Sent("CREATE") :
            LET want == call.d0.new
                cl == Log[i].arg
            IN  /\ cl.template = IF want.template = "" THEN "template0"
                                 ELSE IF want.template \in {"DEFAULT", "default"} THEN "DEFAULT"
                                 ELSE want.template
                /\ want.encoding = "" => cl.encoding = "UTF8"
                /\ want.lc_collate = "" => cl.lc_collate = "C"
                /\ want.lc_ctype = "" => cl.lc_ctype = "C"
                /\ want.owner = "" => cl.owner = ConnUser

\* C13 witness: a Create that gives the template as lower-case "default" and
\* leaves encoding, collation, ctype and owner unset
C13_Witness ==
    /\ call.op = "Create"
    /\ call.d0.new.template = "default"
    /\ call.d0.new.encoding = ""
    /\ call.d0.new.owner = ""
    /\ \E i \in SentOk("CREATE") :
          Log[i].arg.template = "DEFAULT" /\ Log[i].arg.encoding = "UTF8"


\* C14: an Update that changes the name to the empty string returns a
\* validation error, sends nothing to the store, and leaves the identity at the
\* old name.
C14_RenameToEmptyRejected ==
    (call.op = "Update" /\ HasChange(call.d0, "name") /\ call.d0.new.name = "")
    => /\ call.err = "ValidationError"
       /\ Log = <<>>
       /\ call.d.id = call.d0.id
       /\ res.id = call.d0.old.name
       /\ catalog = call.cat0

\* C14 witness: the plan also changes the owner and the connection limit, and
\* neither statement is sent
C14_Witness ==
    /\ call.op = "Update"
    /\ call.d0.old.name # ""
    /\ call.d0.new.name = ""
    /\ HasChange(call.d0, "owner")
    /\ HasChange(call.d0, "connection_limit")
    /\ call.err = "ValidationError"

\* statements and queries that name the database (the GRANT and the REVOKE name
\* roles only)
NamesDatabase == Idx \ (Sent("GRANT") \cup Sent("REVOKE"))

\* C17: in an Update, once the RENAME has succeeded the resource identity is the
\* new name, and every later statement and query of that Update names the
\* database by the new name, also when a later statement fails.
C17_NewNameAfterRename ==
    call.op = "Update" =>
        \A i \in SentOk("RENAME") :
            /\ call.d.id = call.d0.new.name
            /\ res.id = call.d0.new.name
            /\ \A j \in NamesDatabase : j > i =>
                  (Log[j].db = call.d0.new.name /\ Log[j].db # call.d0.old.name)

\* C17 witness: the rename succeeded, the OWNER TO that followed named the new
\* name and failed
C17_Witness ==
    /\ call.op = "Update"
    /\ \E i \in SentOk("RENAME"), j \in Sent("OWNER") :
          i < j /\ Log[j].res = "error" /\ Log[j].db = call.d0.new.name
    /\ call.err = "StoreError"
    /\ res.id = call.d0.new.name


FailedAlters == {i \in Alters : Log[i].res = "error"}

\* the effect of an accepted ALTER is in the catalog
StillApplied(st) ==
    CASE st.kind = "RENAME" -> catalog[st.arg].present /\ ~catalog[st.db].present
      [] st.kind = "OWNER" -> catalog[st.db].owner = st.arg
      [] st.kind = "TABLESPACE" -> catalog[st.db].spcname = st.arg
      [] st.kind = "RESET_TABLESPACE" -> catalog[st.db].spcname = DefaultTablespace
      [] st.kind = "CONNLIMIT" -> catalog[st.db].datconnlimit = st.arg
      [] st.kind = "ALLOWCONN" -> catalog[st.db].datallowconn = st.arg
      [] st.kind = "ISTEMPLATE" -> catalog[st.db].datistemplate = st.arg
      [] OTHER -> FALSE

\* C18: when an ALTER of an Update fails, Update returns an error; nothing is
\* sent after the failed statement but the REVOKE that closes a failed OWNER TO
\* (no statement of a later attribute, no retry, no re-read), and the ALTERs
\* accepted before it stay applied.
C18_UpdateStopsAtFailure ==
    call.op = "Update" =>
        \A i \in FailedAlters :
            /\ call.err # "none"
            /\ \A j \in Idx : j > i => (Log[j].kind = "REVOKE" /\ Log[i].kind = "OWNER")
            /\ \A j \in Idx : ~IsQuery(Log[j].kind)
            /\ \A k \in Alters : (k < i /\ Log[k].res = "ok") => StillApplied(Log[k])

\* C18 witness: name, tablespace and connection limit change; the rename is
\* accepted, the tablespace statement fails, no connection-limit statement is
\* sent and the database keeps its new name
C18_Witness ==
    /\ call.op = "Update"
    /\ HasChange(call.d0, "connection_limit")
    /\ \E i \in SentOk("RENAME"), j \in FailedAlters :
          i < j /\ Log[j].kind = "TABLESPACE" /\ j = Len(Log)
    /\ catalog[call.d0.new.name].present


\* C19: the GRANT and the REVOKE are sent only for an owner that is non-empty
\* and not the connection user; a GRANT answered with the duplicate-membership
\* error is followed by the bracketed statement; a GRANT that fails otherwise
\* makes the operation return an error with no CREATE, no OWNER TO and no
\* REVOKE sent, and Create leaves the identity unset.
C19_GrantStep ==
    call.op \in {"Create", "Update"} =>
        /\ \A i \in Sent("GRANT") \cup Sent("REVOKE") :
              /\ call.d0.new.owner \notin {"", ConnUser}
              /\ Log[i].arg = call.d0.new.owner
              /\ Log[i].db = ConnUser
        /\ \A i \in Sent("GRANT") :
              /\ Log[i].res = "dup" => (i + 1 \in Bracketed /\ Sent("REVOKE") # {})
              /\ Log[i].res = "error" =>
                    /\ call.err # "none"
                    /\ i = Len(Log)
                    /\ Bracketed = {}
                    /\ Sent("REVOKE") = {}
                    /\ call.op = "Create" => (call.d.id = "" /\ res.id = "")

\* C19 witness: the connection user is already a member of the owner role, the
\* GRANT reports the duplicate and CREATE DATABASE is sent and accepted
C19_Witness ==
    /\ call.op = "Create"
    /\ \E i \in Sent("GRANT") :
          Log[i].res = "dup" /\ i + 1 \in SentOk("CREATE")
    /\ call.err = "none"
    /\ call.d.id # ""


AllSucceeded == \A i \in Idx : Log[i].res = "ok"

\* C20: a Create or an ownership-changing Update leaves the connection user's
\* membership of the owner role as it found it: a member before (the GRANT
\* reports the duplicate) is a member after, and a non-member before is a
\* non-member after a run in which every statement succeeded.
C20_MembershipNeutral ==
    (call.op \in {"Create", "Update"} /\ Sent("GRANT") # {}) =>
        /\ call.d0.new.owner \in call.mem0 => call.d0.new.owner \in members
        /\ (call.d0.new.owner \notin call.mem0 /\ AllSucceeded)
              => call.d0.new.owner \notin members

\* a Create, Update or Delete is inside its locked section
Writing(p) == pc[p].at = "in" /\ pc[p].op \in WriteOps

\* C15: every statement and query of a Create, Update or Delete is sent while
\* the operation holds the lock exclusively: from its first statement to its
\* return the server executes no statement or query of another invocation.
C15_WriterStatementsNotInterleaved ==
    [][\A p \in Procs :
          /\ pc'[p].sent # pc[p].sent /\ pc'[p].sent > 0 /\ pc[p].op \in WriteOps
                => (mode = "write" /\ holders = {p})
          /\ Writing(p) =>
                \A q \in Procs \ {p} : pc'[q].sent = pc[q].sent]_vars

\* C15 witness: a writer has sent its statements while a reader and another
\* writer wait for the lock
C15_Witness ==
    \E p, q, r \in Procs :
        /\ Writing(p) /\ pc[p].sent = MaxSends
        /\ pc[q].at = "lock" /\ pc[q].op \in ReadOps
        /\ pc[r].at = "lock" /\ pc[r].op \in WriteOps


\* the lock is held by exactly the goroutines inside a locked section
HeldByThoseInside ==
    /\ holders = {p \in Procs : pc[p].at = "in"}
    /\ mode = "free" <=> holders = {}

\* C16: a handler that returns has released the lock, whatever it sent, and a
\* handler inside the lock does not take it again; so, every store call
\* returning and the scheduling being fair, every invoked handler gets the lock
\* and returns: no goroutine stays in a handler for ever.
C16_LockReleasedAndAcquired ==
    /\ []HeldByThoseInside
    /\ \A p \in Procs : []<>(pc[p].at = "idle")

\* C16 witness: a writer is queued behind a reader that is inside and has sent
\* its query, and a second reader waits behind the writer
C16_Witness ==
    \E p, q, r \in Procs :
        /\ pc[p].at = "wait"
        /\ pc[q].at = "in" /\ pc[q].op \in ReadOps /\ pc[q].sent > 0
        /\ pc[r].at = "lock" /\ pc[r].op \in ReadOps

\* C21: when only these handlers change the catalog, a resource with a
\* non-empty identity names an existing database, whatever statements failed:
\* Create sets the identity only after CREATE DATABASE was accepted, a rename
\* changes it only after RENAME was accepted, Delete clears it only after DROP
\* DATABASE was accepted.
C21_IdentityNamesExistingObject ==
    /\ res.id # "" => RowOf(catalog, res.id).present
    /\ (call.op = "Create" /\ call.d.id # "") => SentOk("CREATE") # {}
    /\ (call.op = "Update" /\ call.d.id # call.d0.id) => SentOk("RENAME") # {}
    /\ (call.op = "Delete" /\ call.d.id = "") => SentOk("DROP") # {}

\* C21 witness: the RENAME of an Update was rejected; the identity is still
\* the old name, which is still in the catalog
C21_Witness ==
    /\ call.op = "Update"
    /\ \E i \in Sent("RENAME") : Log[i].res = "error"
    /\ call.d0.new.name # call.d0.old.name
    /\ res.id = call.d0.old.name
    /\ catalog[res.id].present
    /\ ~catalog[call.d0.new.name].present

\* C22: Read and Exists send queries only (no GRANT, REVOKE, CREATE, ALTER or
\* DROP) and leave the catalog and the role membership as they were; Exists
\* sends exactly one query, keyed by the identity, and leaves the identity and
\* the attributes of the resource unchanged whether or not the object exists.
C22_ReadAndExistsOnlyQuery ==
    /\ call.op \in {"Read", "Exists"} =>
          /\ Mutating = {}
          /\ catalog = call.cat0
          /\ members = call.mem0
    /\ call.op = "Exists" =>
          /\ Len(Log) = 1
          /\ Log[1].kind = "SELECT_EXISTS"
          /\ Log[1].db = call.d0.id
          /\ call.d = call.d0
          /\ res = [id |-> call.d0.id, attrs |-> call.d0.old]
          /\ call.found <=> (RowOf(catalog, call.d0.id).present /\ Log[1].res = "ok")

\* C22 witness: Exists on a resource whose database another session dropped
\* answers false and leaves the resource as it was
C22_Witness ==
    /\ call.op = "Exists"
    /\ AbsentAtEntry
    /\ call.d0.old.name = call.d0.id
    /\ Log[1].res = "norows"
    /\ ~call.found
    /\ res.id = call.d0.id


====
